---- MODULE Spec2Model ----
(***************************************************************************)
(* Reservation and payment-settlement engine of the Circlo rental backend  *)
(* (backend/routes/api.js): POST /bookings, PUT /bookings/:id/status,      *)
(* POST /payments/process, POST /payments/create-order and                 *)
(* POST /payments/verify, over the Bookings table and the payment          *)
(* gateway's orders.                                                       *)
(*                                                                         *)
(* Every handler is one action, except POST /bookings: its overlap SELECT  *)
(* and its INSERT are two statements on a connection without a             *)
(* transaction, so other requests run between them; it is modelled as the  *)
(* two steps CreateBookingCheck and CreateBookingInsert.  The other        *)
(* handlers read only immutable columns (Items rows, a booking's item and  *)
(* user) before their single UPDATE, so splitting them adds no behaviour.  *)
(***************************************************************************)
EXTENDS Integers, Sequences, FiniteSets, TLC

\* ------------------------------------------------------------------ bounds
\* records a run may create: Bookings rows (admitted requests included) plus
\* gateway orders
MaxRecords == 2
\* last calendar day of the date ranges the overlap test is examined on
MaxDate == 3

\* --------------------------------------------------------------- the data
Users == {"u1", "u2", "u3"}
Renters == {"u1", "u3"}                 \* the users who send POST /bookings
Clients == {"c1", "c2"}                 \* concurrent POST /bookings requests
ItemIds == {"i1", "i2"}                 \* rows of the Items table
ItemRequestIds == ItemIds \cup {"i0"}   \* "i0": no such row
Dates == {1, 2}                         \* calendar days, as day numbers

\* Items.owner_id, Items.price (in hundredths of a rupee, so that a fractional
\* price is exact) and Items.price_unit
ItemOwner(item) == IF item = "i1" THEN "u1" ELSE "u3"
ItemPriceCents(item) == IF item = "i1" THEN 10000 ELSE 4950
ItemPriceUnit(item) == IF item = "i1" THEN "day" ELSE "week"

BookingStatuses == {"pending", "confirmed", "rejected", "completed", "cancelled"}
\* the statuses the validator of PUT /bookings/:id/status lets through
RequestableStatuses == {"confirmed", "rejected", "completed", "cancelled"}

Idle == [op |-> "idle"]

VARIABLES
  bookings,   \* the Bookings table: a sequence of rows, row k has id k
  inflight,   \* per client: the POST /bookings request between SELECT and INSERT
  orders,     \* the orders the gateway holds: order k has id OrderId(k)
  req,        \* the request being answered (req.body, req.params, req.user)
  resp,       \* the response to it (res.status(...).json(...))
  accounts,   \* the Users table: the emails that are registered
  checkout    \* the payment component of the client (RazorpayPayment.tsx)

vars == <<bookings, inflight, orders, req, resp, accounts, checkout>>

\* the payment component before handlePayment is called
CheckoutIdle ==
  [pc |-> "idle", props |-> <<>>, options |-> <<>>, payment |-> <<>>,
   called |-> "none"]

BookingIds == 1..Len(bookings)
\* booking ids a request may name: the stored ones and one that is not stored
BookingRequestIds == 0..MaxRecords

Response(code, text) == [code |-> code, text |-> text]
\* no request is being answered
NoRequest == [op |-> "none"]
NoResponse == Response(0, "")

\* the handler answers request r with res.status(code).json(text)
Reply(r, code, text) == req' = r /\ resp' = Response(code, text)

\* the handler answers request r with a JSON body that carries data
ReplyWith(r, code, text, data) ==
  req' = r /\ resp' = data @@ Response(code, text)

\* ------------------------------------------------- POST /bookings (620-711)
\* mutant: the test for a stored range lying inside the requested one is missing
OverlapPredicateEndpoints(row, item, start, end) ==
  /\ row.item = item
  /\ row.status \notin {"cancelled", "rejected"}
  /\ \/ (row.start <= start /\ row.end >= start)
     \/ (row.start <= end /\ row.end >= end)

\* The WHERE clause of the overlap SELECT, for one stored row and the
\* requested item and dates.
OverlapPredicate(row, item, start, end) ==
  /\ row.item = item
  /\ row.status \notin {"cancelled", "rejected"}
  /\ \/ (row.start <= start /\ row.end >= start)
     \/ (row.start <= end /\ row.end >= end)
     \/ (row.start >= start /\ row.end <= end)

\* mutant: only pending rows are returned
OverlapCheckPendingOnly(item, start, end) ==
  {k \in BookingIds : /\ OverlapPredicate(bookings[k], item, start, end)
                      /\ bookings[k].status = "pending"}

\* The rows the overlap SELECT returns.
OverlapCheck(item, start, end) ==
  {k \in BookingIds : OverlapPredicate(bookings[k], item, start, end)}

\* mutant: the row is stored with the owner of the item as its user
NewBookingForOwner(user, item, start, end) ==
  [id |-> Len(bookings) + 1, user |-> ItemOwner(item), item |-> item,
   start |-> start, end |-> end, status |-> "pending", pay |-> "unpaid"]

\* The row the INSERT adds; uuidv4() is modelled as the next unused id.
NewBooking(user, item, start, end) ==
  [id |-> Len(bookings) + 1, user |-> user, item |-> item,
   start |-> start, end |-> end, status |-> "pending", pay |-> "unpaid"]

InflightCount == Cardinality({c \in Clients : inflight[c] # Idle})

RecordCount == Len(bookings) + InflightCount + Len(orders)

CreateBookingRequest(user, item, start, end) ==
  [op |-> "createBooking", user |-> user, item |-> item,
   start |-> start, end |-> end]

\* The handler up to the overlap SELECT: the item lookup, the owner test and
\* the overlap check.  An admitted request waits for its INSERT.
CreateBookingCheck(c, user, item, start, end) ==
  LET r == CreateBookingRequest(user, item, start, end) IN
  /\ resp = NoResponse
  /\ UNCHANGED <<accounts, checkout>>
  /\ inflight[c] = Idle
  /\ UNCHANGED <<bookings, orders>>
  /\ IF item \notin ItemIds
       THEN /\ Reply(r, 404, "Item not found")
            /\ UNCHANGED inflight
       ELSE IF ItemOwner(item) = user
         THEN /\ Reply(r, 400, "Cannot book your own item")
              /\ UNCHANGED inflight
         ELSE IF OverlapCheck(item, start, end) # {}
           THEN /\ Reply(r, 400, "Item is not available for selected dates")
                /\ UNCHANGED inflight
           ELSE /\ RecordCount < MaxRecords                        \* model bound
                /\ inflight' = [inflight EXCEPT ![c] = r]
                /\ UNCHANGED <<req, resp>>

\* The INSERT and the 201 response.
CreateBookingInsert(c) ==
  /\ resp = NoResponse
  /\ UNCHANGED <<accounts, checkout>>
  /\ inflight[c] # Idle
  /\ bookings' = Append(bookings,
        NewBooking(inflight[c].user, inflight[c].item,
                   inflight[c].start, inflight[c].end))
  /\ inflight' = [inflight EXCEPT ![c] = Idle]
  /\ Reply(inflight[c], 201, "Booking request created successfully")
  /\ UNCHANGED orders

\* --------------------------------------- PUT /bookings/:id/status (758-809)
\* mutant: the requester of the booking passes the check as well
OwnerCheckOrRequester(bookingId, actor) ==
  {k \in BookingIds : /\ k = bookingId
                      /\ \/ ItemOwner(bookings[k].item) = actor
                         \/ bookings[k].user = actor}

\* The ownerCheck SELECT: the booking joined with its item, owned by the caller.
OwnerCheck(bookingId, actor) ==
  {k \in BookingIds : k = bookingId /\ ItemOwner(bookings[k].item) = actor}

\* mutant: cancelling a booking deletes its row
UpdateStatusRemoving(rows, bookingId, status) ==
  IF status = "cancelled"
    THEN SelectSeq(rows, LAMBDA row : row.id # bookingId)
    ELSE [k \in DOMAIN rows |->
            IF k = bookingId THEN [rows[k] EXCEPT !.status = status] ELSE rows[k]]

\* UPDATE Bookings SET status = ? WHERE id = ?
UpdateStatus(rows, bookingId, status) ==
  [k \in DOMAIN rows |->
     IF k = bookingId THEN [rows[k] EXCEPT !.status = status] ELSE rows[k]]

TransitionStatusRequest(bookingId, actor, status) ==
  [op |-> "transitionStatus", bookingId |-> bookingId, actor |-> actor,
   status |-> status]

TransitionStatus(bookingId, actor, status) ==
  LET r == TransitionStatusRequest(bookingId, actor, status) IN
  /\ resp = NoResponse
  /\ UNCHANGED <<accounts, checkout>>
  /\ UNCHANGED <<inflight, orders>>
  /\ IF OwnerCheck(bookingId, actor) = {}
       THEN /\ Reply(r, 403, "Not authorized to update this booking")
            /\ UNCHANGED bookings
       ELSE /\ bookings' = UpdateStatus(bookings, bookingId, status)
            /\ Reply(r, 200, "Booking status updated successfully")

\* ------------------------------------------ POST /payments/process (814-899)
\* mutant: the SELECT does not compare the booking's user with the caller
BookingCheckAnyUser(bookingId, user) ==
  {k \in BookingIds : k = bookingId}

\* The bookingCheck SELECT: the booking, if it belongs to the caller.
BookingCheck(bookingId, user) ==
  {k \in BookingIds : k = bookingId /\ bookings[k].user = user}

\* mutant: the UPDATE has no WHERE clause
UpdatePaymentStatusEveryRow(rows, bookingId, pay) ==
  [k \in DOMAIN rows |-> [rows[k] EXCEPT !.pay = pay]]

\* UPDATE Bookings SET payment_status = ? WHERE id = ?
UpdatePaymentStatus(rows, bookingId, pay) ==
  [k \in DOMAIN rows |->
     IF k = bookingId THEN [rows[k] EXCEPT !.pay = pay] ELSE rows[k]]

\* fieldsPresent: booking_id, payment_method and payment_details are all given
ProcessPaymentRequest(bookingId, user, fieldsPresent) ==
  [op |-> "processPayment", bookingId |-> bookingId, user |-> user,
   fieldsPresent |-> fieldsPresent]

ProcessPayment(bookingId, user, fieldsPresent) ==
  LET r == ProcessPaymentRequest(bookingId, user, fieldsPresent) IN
  /\ resp = NoResponse
  /\ UNCHANGED <<accounts, checkout>>
  /\ UNCHANGED <<inflight, orders>>
  /\ IF ~fieldsPresent
       THEN /\ Reply(r, 400, "Missing required fields")
            /\ UNCHANGED bookings
       ELSE IF BookingCheck(bookingId, user) = {}
         THEN /\ Reply(r, 404, "Booking not found")
              /\ UNCHANGED bookings
         ELSE /\ bookings' = UpdatePaymentStatus(bookings, bookingId, "completed")
              /\ Reply(r, 200, "Payment processed successfully")

\* ------------------------------------- POST /payments/create-order (1383-1452)
\* Math.ceil(n / d) for d > 0, n of either sign
Ceil(n, d) == -((-n) \div d)

\* (endDate - startDate) / (1000 * 60 * 60 * 24), rounded up: dates carry no
\* time of day, so the difference is a whole number of days
DaysDiff(start, end) == end - start

RentPayment(item, start, end) ==
  Ceil(ItemPriceCents(item) * DaysDiff(start, end), 100)

PlatformFeePercent == 15
PlatformFee(rent) == Ceil(rent * PlatformFeePercent, 100)

SafetyDeposit == 200

TotalAmount(item, start, end) ==
  RentPayment(item, start, end) + PlatformFee(RentPayment(item, start, end))
    + SafetyDeposit

PaisePerRupee == 100

\* The order razorpay.orders.create is asked for: everything in it comes from
\* the request body and the Items row.
OrderRequest(bookingId, item, start, end) ==
  [amount |-> TotalAmount(item, start, end) * PaisePerRupee,
   booking_id |-> bookingId, item_id |-> item,
   start_date |-> start, end_date |-> end,
   rent_payment |-> RentPayment(item, start, end),
   platform_fee |-> PlatformFee(RentPayment(item, start, end)),
   safety_deposit |-> SafetyDeposit]

\* Identifiers are strings; a string is modelled as the sequence of its
\* character codes.  The gateway names its k-th order OrderId(k).
OrderPrefix == 1
PaymentPrefix == 2
Separator == 0                      \* the "|" of `${order_id}|${payment_id}`
OrderId(k) == <<OrderPrefix, k>>
PaymentId(k) == <<PaymentPrefix, k>>

CreateOrderRequest(bookingId, item, start, end) ==
  [op |-> "createOrder", bookingId |-> bookingId, item |-> item,
   start |-> start, end |-> end]

\* request r, with the number of times its handler called
\* razorpay.orders.create
WithGatewayCalls(r, calls) == [gatewayCalls |-> calls] @@ r

CreateOrder(bookingId, item, start, end) ==
  LET r == CreateOrderRequest(bookingId, item, start, end) IN
  /\ resp = NoResponse
  /\ UNCHANGED <<accounts, checkout>>
  /\ UNCHANGED <<bookings, inflight>>
  /\ IF item \notin ItemIds
       THEN /\ Reply(WithGatewayCalls(r, 0), 404, "Item not found")
            /\ UNCHANGED orders
       ELSE /\ RecordCount < MaxRecords                         \* model bound
            /\ orders' = Append(orders, OrderRequest(bookingId, item, start, end))
            /\ ReplyWith(WithGatewayCalls(r, 1), 200, "success",
                         [order_id |-> OrderId(Len(orders) + 1),
                          amount |-> TotalAmount(item, start, end)])

\* ------------------------------------------ POST /payments/verify (1455-1499)
KeySecret == 7                      \* process.env.RAZORPAY_KEY_SECRET
ForgerKey == KeySecret + 4          \* a key that is not the secret
DigestModulus == 65521

\* crypto.createHmac('sha256', key).update(text).digest('hex'): a keyed digest
\* of the whole text, modelled as a keyed polynomial hash.
RECURSIVE HmacFold(_, _)
HmacFold(h, text) ==
  IF text = <<>> THEN h
  ELSE HmacFold((h * 31 + Head(text) + 1) % DigestModulus, Tail(text))

Hmac(key, text) == HmacFold(key, text)

SignedText(orderId, paymentId) == orderId \o <<Separator>> \o paymentId

ExpectedSignature(orderId, paymentId) ==
  Hmac(KeySecret, SignedText(orderId, paymentId))

\* mutant: the digest is taken over the order id alone
SignatureMatchesOrderOnly(orderId, paymentId, signature) ==
  Hmac(KeySecret, orderId) = signature

SignatureMatches(orderId, paymentId, signature) ==
  ExpectedSignature(orderId, paymentId) = signature

\* mutant: a booking that is already confirmed is moved on to completed
MarkPaidAdvancing(rows, bookingId) ==
  [k \in DOMAIN rows |->
     IF k = bookingId
       THEN [rows[k] EXCEPT
               !.status = IF rows[k].status = "confirmed"
                            THEN "completed" ELSE "confirmed",
               !.pay = "paid"]
       ELSE rows[k]]

\* UPDATE Bookings SET status = 'confirmed', payment_status = 'paid' WHERE id = ?
MarkPaid(rows, bookingId) ==
  [k \in DOMAIN rows |->
     IF k = bookingId
       THEN [rows[k] EXCEPT !.status = "confirmed", !.pay = "paid"]
       ELSE rows[k]]

VerifyRequest(orderId, paymentId, signature, bookingId) ==
  [op |-> "verify", orderId |-> orderId, paymentId |-> paymentId,
   signature |-> signature, bookingId |-> bookingId]

\* mutant: the UPDATE runs before the signature is compared
VerifyAndConfirmUpdateFirst(orderId, paymentId, signature, bookingId) ==
  LET r == VerifyRequest(orderId, paymentId, signature, bookingId) IN
  /\ resp = NoResponse
  /\ UNCHANGED <<accounts, checkout>>
  /\ UNCHANGED <<inflight, orders>>
  /\ bookings' = MarkPaid(bookings, bookingId)
  /\ IF ~SignatureMatches(orderId, paymentId, signature)
       THEN Reply(r, 400, "Invalid payment signature")
       ELSE Reply(r, 200, "Payment verified and booking confirmed")

VerifyAndConfirm(orderId, paymentId, signature, bookingId) ==
  LET r == VerifyRequest(orderId, paymentId, signature, bookingId) IN
  /\ resp = NoResponse
  /\ UNCHANGED <<accounts, checkout>>
  /\ UNCHANGED <<inflight, orders>>
  /\ IF ~SignatureMatches(orderId, paymentId, signature)
       THEN /\ Reply(r, 400, "Invalid payment signature")
            /\ UNCHANGED bookings
       ELSE /\ bookings' = MarkPaid(bookings, bookingId)
            /\ Reply(r, 200, "Payment verified and booking confirmed")

\* ------------------------------------------------------- res.json(...)
\* The response leaves the server.  Node runs a handler step to completion, so
\* the response of one step is written out before the next step runs.
SendResponse ==
  /\ resp # NoResponse
  /\ UNCHANGED <<accounts, checkout>>
  /\ req' = NoRequest
  /\ resp' = NoResponse
  /\ UNCHANGED <<bookings, inflight, orders>>

\* ---------------------------------------------------------- the inputs
OrderIdInputs == {OrderId(1), OrderId(2)}
PaymentIdInputs == {PaymentId(1)}
\* what a caller may send as razorpay_signature: the gateway's signature of
\* any pair, or a signature made without the secret
SignatureInputs ==
  {Hmac(KeySecret, SignedText(o, p)) : o \in OrderIdInputs, p \in PaymentIdInputs}
    \cup {Hmac(ForgerKey, SignedText(OrderId(1), PaymentId(1)))}

\* ------------------------------------------------------ the specification
Init ==
  /\ bookings = <<>>
  /\ inflight = [c \in Clients |-> Idle]
  /\ orders = <<>>
  /\ req = NoRequest
  /\ resp = NoResponse
  /\ accounts = {}
  /\ checkout = CheckoutIdle

Next ==
  \/ \E c \in Clients, user \in Renters, item \in ItemRequestIds,
        start \in Dates, end \in Dates :
       CreateBookingCheck(c, user, item, start, end)
  \/ \E c \in Clients : CreateBookingInsert(c)
  \/ \E bookingId \in BookingRequestIds, actor \in Users,
        status \in RequestableStatuses :
       TransitionStatus(bookingId, actor, status)
  \/ \E bookingId \in BookingRequestIds, user \in Users, fieldsPresent \in BOOLEAN :
       ProcessPayment(bookingId, user, fieldsPresent)
  \/ \E bookingId \in BookingRequestIds, item \in ItemRequestIds,
        start \in Dates, end \in Dates :
       CreateOrder(bookingId, item, start, end)
  \/ \E orderId \in OrderIdInputs, paymentId \in PaymentIdInputs,
        signature \in SignatureInputs, bookingId \in BookingRequestIds :
       VerifyAndConfirm(orderId, paymentId, signature, bookingId)
  \/ SendResponse

Spec == Init /\ [][Next]_vars

\* ------------------------------------- the overlap test on wider date ranges
WideDates == 1..MaxDate
\* the date ranges with start <= end
ValidRanges == {range \in WideDates \X WideDates : range[1] <= range[2]}

\* a Bookings row of a renter who does not own the item
StoredBooking(item, start, end, status) ==
  [id |-> 1, user |-> CHOOSE u \in Renters : u # ItemOwner(item), item |-> item,
   start |-> start, end |-> end, status |-> status, pay |-> "unpaid"]

\* One booking is stored, with any valid range and any status.
OverlapInit ==
  /\ \E item \in ItemIds, range \in ValidRanges, status \in BookingStatuses :
       bookings = <<StoredBooking(item, range[1], range[2], status)>>
  /\ inflight = [c \in Clients |-> Idle]
  /\ orders = <<>>
  /\ req = NoRequest
  /\ resp = NoResponse
  /\ accounts = {}
  /\ checkout = CheckoutIdle

\* POST /bookings with every valid range against the stored rows.
OverlapNext ==
  \/ \E c \in Clients, user \in Renters, item \in ItemRequestIds,
        range \in ValidRanges :
       CreateBookingCheck(c, user, item, range[1], range[2])
  \/ \E c \in Clients : CreateBookingInsert(c)
  \/ SendResponse

OverlapSpec == OverlapInit /\ [][OverlapNext]_vars

\* ------------------------------------ failures of the store and the gateway
\* getDBConnection, conn.exec and razorpay.orders.create may fail; the error
\* reaches the handler's catch block, which answers 500.  A statement that
\* fails has written nothing (each statement is its own transaction).

\* POST /bookings: the connection or one of the two SELECTs fails.
CreateBookingCheckFails(c, user, item, start, end) ==
  /\ resp = NoResponse
  /\ UNCHANGED <<accounts, checkout>>
  /\ inflight[c] = Idle
  /\ Reply(CreateBookingRequest(user, item, start, end),
           500, "Failed to create booking")
  /\ UNCHANGED <<bookings, inflight, orders>>

\* POST /bookings: the INSERT fails.
CreateBookingInsertFails(c) ==
  /\ resp = NoResponse
  /\ UNCHANGED <<accounts, checkout>>
  /\ inflight[c] # Idle
  /\ inflight' = [inflight EXCEPT ![c] = Idle]
  /\ Reply(inflight[c], 500, "Failed to create booking")
  /\ UNCHANGED <<bookings, orders>>

\* PUT /bookings/:id/status: the connection, the SELECT or the UPDATE fails.
TransitionStatusFails(bookingId, actor, status) ==
  /\ resp = NoResponse
  /\ UNCHANGED <<accounts, checkout>>
  /\ Reply(TransitionStatusRequest(bookingId, actor, status),
           500, "Failed to update booking")
  /\ UNCHANGED <<bookings, inflight, orders>>

\* POST /payments/process: the connection (opened before the fields are
\* looked at), the SELECT or the UPDATE fails.
ProcessPaymentFails(bookingId, user, fieldsPresent) ==
  /\ resp = NoResponse
  /\ UNCHANGED <<accounts, checkout>>
  /\ Reply(ProcessPaymentRequest(bookingId, user, fieldsPresent),
           500, "Failed to process payment")
  /\ UNCHANGED <<bookings, inflight, orders>>

\* POST /payments/create-order: the connection or the Items SELECT fails.
CreateOrderStoreFails(bookingId, item, start, end) ==
  /\ resp = NoResponse
  /\ UNCHANGED <<accounts, checkout>>
  /\ Reply(WithGatewayCalls(CreateOrderRequest(bookingId, item, start, end), 0),
           500, "Failed to create payment order")
  /\ UNCHANGED <<bookings, inflight, orders>>

\* mutant: the handler calls the gateway a second time, which opens the order
CreateOrderGatewayRetried(bookingId, item, start, end) ==
  /\ resp = NoResponse
  /\ UNCHANGED <<accounts, checkout>>
  /\ item \in ItemIds
  /\ RecordCount < MaxRecords
  /\ orders' = Append(orders, OrderRequest(bookingId, item, start, end))
  /\ Reply(WithGatewayCalls(CreateOrderRequest(bookingId, item, start, end), 2),
           500, "Failed to create payment order")
  /\ UNCHANGED <<bookings, inflight>>

\* POST /payments/create-order: razorpay.orders.create rejects; the gateway
\* has opened no order.
CreateOrderGatewayFails(bookingId, item, start, end) ==
  /\ resp = NoResponse
  /\ UNCHANGED <<accounts, checkout>>
  /\ item \in ItemIds
  /\ Reply(WithGatewayCalls(CreateOrderRequest(bookingId, item, start, end), 1),
           500, "Failed to create payment order")
  /\ UNCHANGED <<bookings, inflight, orders>>

\* mutant: the UPDATE is applied although the handler reports the failure
VerifyAndConfirmFailsAfterUpdate(orderId, paymentId, signature, bookingId) ==
  /\ resp = NoResponse
  /\ UNCHANGED <<accounts, checkout>>
  /\ SignatureMatches(orderId, paymentId, signature)
  /\ bookings' = MarkPaid(bookings, bookingId)
  /\ Reply(VerifyRequest(orderId, paymentId, signature, bookingId),
           500, "Failed to verify payment")
  /\ UNCHANGED <<inflight, orders>>

\* POST /payments/verify: the signature matched; the connection or the UPDATE
\* fails.
VerifyAndConfirmFails(orderId, paymentId, signature, bookingId) ==
  /\ resp = NoResponse
  /\ UNCHANGED <<accounts, checkout>>
  /\ SignatureMatches(orderId, paymentId, signature)
  /\ Reply(VerifyRequest(orderId, paymentId, signature, bookingId),
           500, "Failed to verify payment")
  /\ UNCHANGED <<bookings, inflight, orders>>

\* Failures are examined with one client, one renter and one item.
FaultClients == {"c1"}
FaultRenters == {"u3"}
FaultItemRequestIds == {"i1", "i0"}

\* Every handler, succeeding or failing.
FaultNext ==
  \/ \E c \in FaultClients, user \in FaultRenters, item \in FaultItemRequestIds,
        start \in Dates, end \in Dates :
       \/ CreateBookingCheck(c, user, item, start, end)
       \/ CreateBookingCheckFails(c, user, item, start, end)
  \/ \E c \in FaultClients :
       \/ CreateBookingInsert(c)
       \/ CreateBookingInsertFails(c)
  \/ \E bookingId \in BookingRequestIds, actor \in Users,
        status \in RequestableStatuses :
       \/ TransitionStatus(bookingId, actor, status)
       \/ TransitionStatusFails(bookingId, actor, status)
  \/ \E bookingId \in BookingRequestIds, user \in Users, fieldsPresent \in BOOLEAN :
       \/ ProcessPayment(bookingId, user, fieldsPresent)
       \/ ProcessPaymentFails(bookingId, user, fieldsPresent)
  \/ \E bookingId \in BookingRequestIds, item \in FaultItemRequestIds,
        start \in Dates, end \in Dates :
       \/ CreateOrder(bookingId, item, start, end)
       \/ CreateOrderStoreFails(bookingId, item, start, end)
       \/ CreateOrderGatewayFails(bookingId, item, start, end)
  \/ \E orderId \in OrderIdInputs, paymentId \in PaymentIdInputs,
        signature \in SignatureInputs, bookingId \in BookingRequestIds :
       \/ VerifyAndConfirm(orderId, paymentId, signature, bookingId)
       \/ VerifyAndConfirmFails(orderId, paymentId, signature, bookingId)
  \/ SendResponse

FaultSpec == Init /\ [][FaultNext]_vars

\* --------------------- PUT /bookings/:id/status, statement by statement
\* The handler awaits its ownerCheck SELECT and then its UPDATE; other
\* requests run between the two.  Here the two statements are two steps.
\* The request that waits for its UPDATE carries, as `seen`, the status the
\* booking had when the SELECT ran (the handler itself does not read it).
TransitionStatusCheck(c, bookingId, actor, status) ==
  LET r == TransitionStatusRequest(bookingId, actor, status) IN
  /\ resp = NoResponse
  /\ UNCHANGED <<accounts, checkout>>
  /\ inflight[c] = Idle
  /\ UNCHANGED <<bookings, orders>>
  /\ IF OwnerCheck(bookingId, actor) = {}
       THEN /\ Reply(r, 403, "Not authorized to update this booking")
            /\ UNCHANGED inflight
       ELSE /\ inflight' = [inflight EXCEPT
                              ![c] = [seen |-> bookings[bookingId].status] @@ r]
            /\ UNCHANGED <<req, resp>>

TransitionStatusUpdate(c) ==
  /\ resp = NoResponse
  /\ UNCHANGED <<accounts, checkout>>
  /\ inflight[c] # Idle
  /\ bookings' = UpdateStatus(bookings, inflight[c].bookingId, inflight[c].status)
  /\ inflight' = [inflight EXCEPT ![c] = Idle]
  /\ Reply(inflight[c], 200, "Booking status updated successfully")
  /\ UNCHANGED orders

\* One booking is stored, in any status.
ConcurrentInit ==
  /\ \E item \in ItemIds, start \in Dates, status \in BookingStatuses :
       bookings = <<StoredBooking(item, start, start, status)>>
  /\ inflight = [c \in Clients |-> Idle]
  /\ orders = <<>>
  /\ req = NoRequest
  /\ resp = NoResponse
  /\ accounts = {}
  /\ checkout = CheckoutIdle

\* Concurrent status requests and payment verifications on the stored booking.
ConcurrentNext ==
  \/ \E c \in Clients, bookingId \in BookingRequestIds, actor \in Users,
        status \in RequestableStatuses :
       TransitionStatusCheck(c, bookingId, actor, status)
  \/ \E c \in Clients : TransitionStatusUpdate(c)
  \/ \E orderId \in OrderIdInputs, paymentId \in PaymentIdInputs,
        signature \in SignatureInputs, bookingId \in BookingRequestIds :
       VerifyAndConfirm(orderId, paymentId, signature, bookingId)
  \/ SendResponse

ConcurrentSpec == ConcurrentInit /\ [][ConcurrentNext]_vars

\* ------------------------------------------ the pricing on wider date ranges
\* POST /payments/create-order with every pair of dates.
PricingNext ==
  \/ \E bookingId \in BookingRequestIds, item \in ItemRequestIds,
        start \in WideDates, end \in WideDates :
       CreateOrder(bookingId, item, start, end)
  \/ SendResponse

PricingSpec == Init /\ [][PricingNext]_vars

\* -------------------- the client payment flow (RazorpayPayment.tsx, api.ts)
\* ApiService.request: the JSON body of a response with an ok status (2xx) is
\* returned as data with success true; any other response becomes a thrown
\* error, which the catch block turns into success false.
ApiResponse(response) ==
  IF response.code \in 200..299
    THEN [success |-> TRUE, data |-> response]
    ELSE [success |-> FALSE, error |-> response.text]

\* mutant: the amount of the order response is passed on as it is
CheckoutAmountUnscaled(amount) == amount

\* options.amount: amount * 100
CheckoutAmount(amount) == amount * 100

\* handlePayment is called: the component sends its props to
\* POST /payments/create-order.
HandlePayment(bookingId, item, start, end) ==
  /\ checkout.pc = "idle"
  /\ checkout' = [CheckoutIdle EXCEPT
                    !.pc = "creatingOrder",
                    !.props = [booking_id |-> bookingId, item_id |-> item,
                               start_date |-> start, end_date |-> end]]
  /\ UNCHANGED <<bookings, inflight, orders, req, resp, accounts>>

\* apiService.createPaymentOrder: the server handles the request of the
\* component, and the gateway or the store may fail.
CreatePaymentOrder ==
  /\ checkout.pc = "creatingOrder"
  /\ LET props == checkout.props IN
       \/ CreateOrder(props.booking_id, props.item_id,
                      props.start_date, props.end_date)
       \/ CreateOrderGatewayFails(props.booking_id, props.item_id,
                                  props.start_date, props.end_date)

\* The order response arrives: without success the component alerts and
\* returns; with success it opens the gateway's checkout with the order id and
\* the amount of the response.
OpenCheckout ==
  /\ checkout.pc = "creatingOrder"
  /\ resp # NoResponse
  /\ LET orderResponse == ApiResponse(resp) IN
       IF ~orderResponse.success
         THEN checkout' = [checkout EXCEPT !.pc = "idle"]
         ELSE checkout' = [checkout EXCEPT
                 !.pc = "checkoutOpen",
                 !.options = [amount |-> CheckoutAmount(orderResponse.data.amount),
                              order_id |-> orderResponse.data.order_id]]
  /\ req' = NoRequest
  /\ resp' = NoResponse
  /\ UNCHANGED <<bookings, inflight, orders, accounts>>

\* fetch rejects: request() returns success false, and the component alerts.
FetchFails ==
  /\ checkout.pc \in {"creatingOrder", "verifying"}
  /\ checkout' = [checkout EXCEPT !.pc = "idle"]
  /\ req' = NoRequest
  /\ resp' = NoResponse
  /\ UNCHANGED <<bookings, inflight, orders, accounts>>

\* modal.ondismiss: the user closes the checkout.
Dismiss ==
  /\ checkout.pc = "checkoutOpen"
  /\ checkout' = [checkout EXCEPT !.pc = "idle", !.called = "onCancel"]
  /\ UNCHANGED <<bookings, inflight, orders, req, resp, accounts>>

\* options.handler is called by the checkout with the payment of the order it
\* was opened for; the component sends it to POST /payments/verify.
PaymentHandler(paymentId, signature) ==
  /\ checkout.pc = "checkoutOpen"
  /\ checkout' = [checkout EXCEPT
                    !.pc = "verifying",
                    !.payment = [razorpay_order_id |-> checkout.options.order_id,
                                 razorpay_payment_id |-> paymentId,
                                 razorpay_signature |-> signature]]
  /\ UNCHANGED <<bookings, inflight, orders, req, resp, accounts>>

\* apiService.verifyPayment: the server handles the verification request.
VerifyPayment ==
  /\ checkout.pc = "verifying"
  /\ LET payment == checkout.payment IN
       \/ VerifyAndConfirm(payment.razorpay_order_id, payment.razorpay_payment_id,
                           payment.razorpay_signature, checkout.props.booking_id)
       \/ VerifyAndConfirmFails(payment.razorpay_order_id,
                                payment.razorpay_payment_id,
                                payment.razorpay_signature,
                                checkout.props.booking_id)

\* mutant: onSuccess is called whatever the verification response says
PaymentVerifiedUnchecked ==
  /\ checkout.pc = "verifying"
  /\ resp # NoResponse
  /\ checkout' = [checkout EXCEPT !.pc = "idle", !.called = "onSuccess"]
  /\ req' = NoRequest
  /\ resp' = NoResponse
  /\ UNCHANGED <<bookings, inflight, orders, accounts>>

\* The verification response arrives in the handler: onSuccess is called if
\* it has success, otherwise the component alerts.
PaymentVerified ==
  /\ checkout.pc = "verifying"
  /\ resp # NoResponse
  /\ LET verifyResponse == ApiResponse(resp) IN
       IF verifyResponse.success
         THEN checkout' = [checkout EXCEPT !.pc = "idle", !.called = "onSuccess"]
         ELSE checkout' = [checkout EXCEPT !.pc = "idle"]
  /\ req' = NoRequest
  /\ resp' = NoResponse
  /\ UNCHANGED <<bookings, inflight, orders, accounts>>

\* The component is shown for a stored booking that is pending and unpaid.
ClientInit ==
  /\ \E item \in ItemIds, start \in Dates :
       bookings = <<StoredBooking(item, start, start + 1, "pending")>>
  /\ inflight = [c \in Clients |-> Idle]
  /\ orders = <<>>
  /\ req = NoRequest
  /\ resp = NoResponse
  /\ accounts = {}
  /\ checkout = CheckoutIdle

ClientNext ==
  \/ \E bookingId \in BookingRequestIds, item \in ItemRequestIds,
        start \in Dates, end \in Dates :
       HandlePayment(bookingId, item, start, end)
  \/ CreatePaymentOrder
  \/ OpenCheckout
  \/ FetchFails
  \/ Dismiss
  \/ \E paymentId \in PaymentIdInputs, signature \in SignatureInputs :
       PaymentHandler(paymentId, signature)
  \/ VerifyPayment
  \/ PaymentVerified

ClientSpec == ClientInit /\ [][ClientNext]_vars

\* ------------------------------------------- POST /auth/register (102-232)
\* the emails a registration may carry
Emails == {"a@circlo.in", "b@circlo.in", "c@circlo.in", "d@circlo.in"}

\* dbAvailable: getDBConnection and the statements of the handler succeed
RegisterRequest(email, dbAvailable) ==
  [op |-> "register", email |-> email, dbAvailable |-> dbAvailable]

\* catch (dbError): the fallback starts with mockData.users.find(...).  api.js
\* neither declares nor imports mockData, so reading it throws a
\* ReferenceError; the finally block runs and the outer catch answers.
RegisterFallback(r) ==
  /\ Reply(r, 500, "Registration failed")
  /\ UNCHANGED accounts

Register(email, dbAvailable) ==
  LET r == RegisterRequest(email, dbAvailable) IN
  /\ resp = NoResponse
  /\ UNCHANGED <<bookings, inflight, orders, checkout>>
  /\ IF ~dbAvailable
       THEN RegisterFallback(r)
       ELSE IF email \in accounts
         THEN /\ Reply(r, 400, "User already exists with this email")
              /\ UNCHANGED accounts
         ELSE /\ accounts' = accounts \cup {email}
              /\ Reply(r, 201, "User registered successfully")

RegisterNext ==
  \/ \E email \in Emails, dbAvailable \in BOOLEAN : Register(email, dbAvailable)
  \/ SendResponse

RegisterSpec == Init /\ [][RegisterNext]_vars

\* ------------------------------------------- the handlers, await by await
\* Each handler is an async function: it runs until it awaits the store or
\* the gateway, and goes on when the awaited promise is resolved or rejected.
\* Here inflight[c] is the handler serving client c: the index of the await
\* it is waiting at (0 once it has returned), the number of responses it has
\* written and the status code of the last one.
HandlerOps == {"createBooking", "transitionStatus", "createOrder", "verify"}

\* what a handler awaits, in order
Awaits(op) ==
  CASE op = "createBooking" -> <<"connect", "select", "select", "insert">>
    [] op = "transitionStatus" -> <<"connect", "select", "update">>
    [] op = "createOrder" -> <<"connect", "select", "gateway">>
    [] op = "verify" -> <<"connect", "update">>

\* the status codes of the error responses a handler may return with once its
\* k-th await has resolved
EarlyReturns(op, k) ==
  CASE op = "createBooking" /\ k = 2 -> {404, 400}
    [] op = "createBooking" /\ k = 3 -> {400}
    [] op = "transitionStatus" /\ k = 2 -> {403}
    [] op = "createOrder" /\ k = 2 -> {404}
    [] OTHER -> {}

SuccessCode(op) == IF op = "createBooking" THEN 201 ELSE 200

\* res.status(code).json(...) followed by the return of the handler
Respond(h, code) ==
  [h EXCEPT !.awaiting = 0, !.responses = @ + 1, !.code = code]

\* A request arrives.  The validators (and, in payments/verify, the signature
\* comparison) run before the first await and may answer 400 at once.
Receive(c, op, accepted) ==
  /\ inflight[c] = Idle
  /\ inflight' = [inflight EXCEPT ![c] =
        IF accepted
          THEN [op |-> op, awaiting |-> 1, responses |-> 0, code |-> 0]
          ELSE Respond([op |-> op, awaiting |-> 1, responses |-> 0, code |-> 0],
                       400)]
  /\ UNCHANGED <<bookings, orders, req, resp, accounts, checkout>>

\* The awaited promise resolves: the handler returns an error response
\* (early is its status code), or goes on to its next await, or, after the
\* last one, answers with success.
AwaitResolves(c, early) ==
  LET h == inflight[c] IN
  /\ h # Idle
  /\ h.awaiting > 0
  /\ early # 0 => early \in EarlyReturns(h.op, h.awaiting)
  /\ inflight' = [inflight EXCEPT ![c] =
        IF early # 0 THEN Respond(h, early)
        ELSE IF h.awaiting = Len(Awaits(h.op)) THEN Respond(h, SuccessCode(h.op))
        ELSE [h EXCEPT !.awaiting = @ + 1]]
  /\ UNCHANGED <<bookings, orders, req, resp, accounts, checkout>>

\* mutant: the catch block logs the error and writes no response
AwaitRejectsUnanswered(c) ==
  LET h == inflight[c] IN
  /\ h # Idle
  /\ h.awaiting > 0
  /\ inflight' = [inflight EXCEPT ![c] = [h EXCEPT !.awaiting = 0]]
  /\ UNCHANGED <<bookings, orders, req, resp, accounts, checkout>>

\* The awaited promise is rejected: the catch block answers 500.
AwaitRejects(c) ==
  LET h == inflight[c] IN
  /\ h # Idle
  /\ h.awaiting > 0
  /\ inflight' = [inflight EXCEPT ![c] = Respond(h, 500)]
  /\ UNCHANGED <<bookings, orders, req, resp, accounts, checkout>>

\* the store or the gateway answers or fails
AwaitSettles(c) ==
  \/ \E early \in {0, 400, 403, 404} : AwaitResolves(c, early)
  \/ AwaitRejects(c)

\* The handler has returned (its finally block has disconnected): the
\* request is over.
Close(c) ==
  /\ inflight[c] # Idle
  /\ inflight[c].awaiting = 0
  /\ inflight' = [inflight EXCEPT ![c] = Idle]
  /\ UNCHANGED <<bookings, orders, req, resp, accounts, checkout>>

LiveNext ==
  \/ \E c \in Clients, op \in HandlerOps, accepted \in BOOLEAN :
       Receive(c, op, accepted)
  \/ \E c \in Clients, early \in {0, 400, 403, 404} : AwaitResolves(c, early)
  \/ \E c \in Clients : AwaitRejects(c)
  \/ \E c \in Clients : Close(c)

\* Fairness: every awaited call of the store or the gateway is eventually
\* resolved or rejected, and the event loop runs a handler that can go on.
LiveSpec ==
  /\ Init
  /\ [][LiveNext]_vars
  /\ \A c \in Clients : WF_vars(AwaitSettles(c)) /\ WF_vars(Close(c))


\* ================================================================= claims
\* [s1, e1] and [s2, e2] share a calendar day
RangesOverlap(s1, e1, s2, e2) == s1 <= e2 /\ s2 <= e1

Active(row) == row.status \notin {"cancelled", "rejected"}

VerifyOk == Response(200, "Payment verified and booking confirmed")
VerifyBadSignature == Response(400, "Invalid payment signature")

\* HMAC-SHA256(secretKey, orderId + "|" + paymentId) of a verify request
RequestHmac(r) == Hmac(KeySecret, r.orderId \o <<Separator>> \o r.paymentId)

\* C1: in every reachable state, the bookings of one item whose status is
\* neither cancelled nor rejected have pairwise non-overlapping inclusive
\* date ranges.
C1_NoDoubleBooking ==
  \A j \in BookingIds, k \in BookingIds :
    (j < k /\ bookings[j].item = bookings[k].item
       /\ Active(bookings[j]) /\ Active(bookings[k]))
    => ~RangesOverlap(bookings[j].start, bookings[j].end,
                      bookings[k].start, bookings[k].end)

\* C2: of two concurrent CreateBooking requests for overlapping ranges of one
\* item only one succeeds: a request is never stored and answered 201 while a
\* pending booking of the same item that overlaps it is already stored.
C2_ConcurrentCreateOneSucceeds ==
  [][(req'.op = "createBooking" /\ resp'.code = 201) =>
       \A k \in BookingIds :
         ~(/\ bookings[k].status = "pending"
           /\ bookings[k].item = req'.item
           /\ RangesOverlap(bookings[k].start, bookings[k].end,
                            req'.start, req'.end))]_vars

\* C3: a booking's payment status leaves unpaid only in a VerifyAndConfirm
\* step whose signature matched; no other operation changes it.
C3_OnlyVerifiedPaymentLeavesUnpaid ==
  [][(\E k \in BookingIds :
        bookings[k].pay = "unpaid" /\ bookings'[k].pay # "unpaid")
     => (req'.op = "verify" /\ req'.signature = RequestHmac(req'))]_vars

\* C4: VerifyAndConfirm succeeds (answers success, the named booking, if
\* stored, being paid) if and only if the supplied signature equals
\* HMAC(secretKey, orderId + "|" + paymentId); any other signature is rejected.
C4_VerifySucceedsIffSignatureMatches ==
  req.op = "verify" =>
    IF req.signature = RequestHmac(req)
      THEN /\ resp = VerifyOk
           /\ req.bookingId \in BookingIds
                => bookings[req.bookingId].pay = "paid"
      ELSE resp = VerifyBadSignature

\* C4 witness: an order was opened and a verification then succeeded and
\* marked the booking paid.
C4_Witness ==
  /\ req.op = "verify" /\ resp = VerifyOk
  /\ orders # <<>>
  /\ req.bookingId \in BookingIds /\ bookings[req.bookingId].pay = "paid"

\* C5: a VerifyAndConfirm whose signature does not match answers
\* "Invalid payment signature" and leaves every booking as it was.
C5_BadSignatureChangesNothing ==
  [][(req'.op = "verify" /\ req'.signature # RequestHmac(req'))
     => (resp' = VerifyBadSignature /\ bookings' = bookings)]_vars

\* C5 witness: a verification naming a stored booking was refused for its
\* signature, and the booking is still pending and unpaid.
C5_Witness ==
  /\ req.op = "verify" /\ req.signature # RequestHmac(req)
  /\ req.bookingId \in BookingIds
  /\ bookings[req.bookingId].status = "pending"
  /\ bookings[req.bookingId].pay = "unpaid"

\* orderId names the most recent order opened for bookingId
MostRecentOrderFor(orderId, bookingId) ==
  \E k \in 1..Len(orders) :
    /\ OrderId(k) = orderId
    /\ orders[k].booking_id = bookingId
    /\ \A j \in (k + 1)..Len(orders) : orders[j].booking_id # bookingId

\* C6: VerifyAndConfirm is refused, and the bookings are left unchanged,
\* whenever orderId is not the most recent order created for bookingId.
C6_StaleOrForeignOrderRejected ==
  [][(/\ req'.op = "verify"
      /\ req'.bookingId \in BookingIds
      /\ ~MostRecentOrderFor(req'.orderId, req'.bookingId))
     => (resp' # VerifyOk /\ bookings' = bookings)]_vars

\* C7: a correctly signed VerifyAndConfirm on a booking that an earlier
\* MarkPaid left confirmed and paid succeeds again and changes no booking.
C7_MarkPaidIdempotent ==
  [][(/\ req'.op = "verify"
      /\ req'.signature = RequestHmac(req')
      /\ req'.bookingId \in BookingIds
      /\ bookings[req'.bookingId].status = "confirmed"
      /\ bookings[req'.bookingId].pay = "paid")
     => (resp' = VerifyOk /\ bookings' = bookings)]_vars

\* C7 witness: a correctly signed callback was answered with success for a
\* booking that is confirmed and paid, the state a duplicate callback meets
\* and leaves.
C7_Witness ==
  /\ req.op = "verify" /\ resp = VerifyOk
  /\ req.signature = RequestHmac(req)
  /\ req.bookingId \in BookingIds
  /\ bookings[req.bookingId].status = "confirmed"
  /\ bookings[req.bookingId].pay = "paid"

\* C8: MarkPaid leaves the status of a booking that is not pending unchanged.
C8_MarkPaidAdvancesOnlyPending ==
  [][(/\ req'.op = "verify"
      /\ req'.bookingId \in BookingIds
      /\ bookings[req'.bookingId].status # "pending")
     => bookings'[req'.bookingId].status = bookings[req'.bookingId].status]_vars

\* C9: each booking's payment status is unpaid or paid, is unpaid when the
\* booking is stored, and stays paid once it is paid.
C9_PaymentStatusMonotonic ==
  [][\A k \in DOMAIN bookings' :
       /\ bookings'[k].pay \in {"unpaid", "paid"}
       /\ k \notin BookingIds => bookings'[k].pay = "unpaid"
       /\ (k \in BookingIds /\ bookings[k].pay = "paid")
            => bookings'[k].pay = "paid"]_vars

LegalTransitions ==
  {<<"pending", "confirmed">>, <<"pending", "rejected">>,
   <<"confirmed", "completed">>, <<"confirmed", "cancelled">>}

\* C10: TransitionStatus refuses every (current status, requested status)
\* pair outside the four legal transitions and leaves the bookings unchanged.
C10_OnlyLegalTransitionsAccepted ==
  [][(/\ req'.op = "transitionStatus"
      /\ req'.bookingId \in BookingIds
      /\ <<bookings[req'.bookingId].status, req'.status>> \notin LegalTransitions)
     => (resp'.code # 200 /\ bookings' = bookings)]_vars

TerminalStatuses == {"completed", "rejected", "cancelled"}

\* C11: a booking whose status is completed, rejected or cancelled keeps that
\* status in every later step, whatever the operation.
C11_TerminalStatusKept ==
  [][\A k \in BookingIds :
       bookings[k].status \in TerminalStatuses
         => bookings'[k].status = bookings[k].status]_vars

Forbidden == Response(403, "Not authorized to update this booking")
StatusUpdated == Response(200, "Booking status updated successfully")

\* C12: a TransitionStatus request that asks to move a pending booking to
\* confirmed or rejected, made by anyone but the owner of the booked item, is
\* answered with the authorization error and changes no booking.
C12_OnlyOwnerDecidesPending ==
  [][(/\ req'.op = "transitionStatus"
      /\ req'.bookingId \in BookingIds
      /\ bookings[req'.bookingId].status = "pending"
      /\ req'.status \in {"confirmed", "rejected"}
      /\ req'.actor # ItemOwner(bookings[req'.bookingId].item))
     => (resp' = Forbidden /\ bookings' = bookings)]_vars

\* C12 witness: the requester of a pending booking asked to confirm it, was
\* refused, and the booking is still pending.
C12_Witness ==
  /\ req.op = "transitionStatus" /\ resp = Forbidden
  /\ req.bookingId \in BookingIds
  /\ req.status = "confirmed"
  /\ req.actor = bookings[req.bookingId].user
  /\ bookings[req.bookingId].status = "pending"

\* C13: a request to cancel a confirmed booking succeeds when it comes from the
\* booking's requester or from the item's owner, and is refused with the
\* authorization error when it comes from anyone else.
C13_RequesterOrOwnerCancels ==
  [][(/\ req'.op = "transitionStatus"
      /\ req'.bookingId \in BookingIds
      /\ bookings[req'.bookingId].status = "confirmed"
      /\ req'.status = "cancelled")
     => IF req'.actor \in {bookings[req'.bookingId].user,
                           ItemOwner(bookings[req'.bookingId].item)}
          THEN /\ resp' = StatusUpdated
               /\ bookings'[req'.bookingId].status = "cancelled"
          ELSE resp' = Forbidden /\ bookings' = bookings]_vars

\* C14: every CreateBooking answered with success adds exactly one booking,
\* whose identifier no stored booking has, with the requested item and dates,
\* the caller as its user, status pending and payment status unpaid, and
\* leaves every stored booking as it was.
C14_CreateAddsOnePendingUnpaid ==
  [][(req'.op = "createBooking" /\ resp'.code = 201)
     => /\ Len(bookings') = Len(bookings) + 1
        /\ \A k \in BookingIds : bookings'[k] = bookings[k]
        /\ LET b == bookings'[Len(bookings')] IN
             /\ b.id \notin {bookings[k].id : k \in BookingIds}
             /\ b.item = req'.item
             /\ b.start = req'.start /\ b.end = req'.end
             /\ b.user = req'.user
             /\ b.status = "pending" /\ b.pay = "unpaid"]_vars

\* C14 witness: a second booking was just stored, pending and unpaid, next to
\* a first one that an owner has already decided.
C14_Witness ==
  /\ req.op = "createBooking" /\ resp.code = 201
  /\ Len(bookings) = 2
  /\ bookings[1].status # "pending"
  /\ bookings[2].status = "pending" /\ bookings[2].pay = "unpaid"

ItemNotFound == Response(404, "Item not found")
SelfBookingForbidden == Response(400, "Cannot book your own item")
RangeUnavailable == Response(400, "Item is not available for selected dates")

\* a pending or confirmed booking of the requested item overlaps request r
Blocked(r) ==
  \E k \in BookingIds :
    /\ bookings[k].item = r.item
    /\ bookings[k].status \in {"pending", "confirmed"}
    /\ RangesOverlap(bookings[k].start, bookings[k].end, r.start, r.end)

\* C15: when the handler examines a CreateBooking request (its lookups and its
\* overlap SELECT), a request for an item that is not stored is answered
\* ItemNotFound, one by the item's owner SelfBookingForbidden, one whose range
\* overlaps a pending or confirmed booking of the item RangeUnavailable; a
\* refused request stores nothing, and no request in one of these cases is
\* admitted.
C15_CreateBookingErrors ==
  [][/\ (req'.op = "createBooking" /\ resp'.code # 201)
          => /\ bookings' = bookings /\ inflight' = inflight
             /\ req'.item \notin ItemIds => resp' = ItemNotFound
             /\ (req'.item \in ItemIds /\ ItemOwner(req'.item) = req'.user)
                  => resp' = SelfBookingForbidden
             /\ (/\ req'.item \in ItemIds
                 /\ ItemOwner(req'.item) # req'.user
                 /\ Blocked(req')) => resp' = RangeUnavailable
     /\ \A c \in Clients :
          (inflight[c] = Idle /\ inflight'[c] # Idle)
          => /\ inflight'[c].item \in ItemIds
             /\ ItemOwner(inflight'[c].item) # inflight'[c].user
             /\ ~Blocked(inflight'[c])]_vars

\* C15 witness: a request on a range taken by a confirmed booking was answered
\* RangeUnavailable, and only that booking is stored.
C15_Witness ==
  /\ req.op = "createBooking" /\ resp = RangeUnavailable
  /\ Len(bookings) = 1
  /\ bookings[1].status = "confirmed"
  /\ Blocked(req)

\* C16: a CreateBooking whose start date is later than its end date stores
\* nothing: every stored booking has start <= end.
C16_StoredRangesValid ==
  \A k \in BookingIds : bookings[k].start <= bookings[k].end

ValidRange(r) == r.start <= r.end

\* a stored booking of the requested item that the status filter of the
\* overlap SELECT lets through shares a day with request r
DateConflict(r) ==
  \E k \in BookingIds :
    /\ bookings[k].item = r.item
    /\ Active(bookings[k])
    /\ RangesOverlap(bookings[k].start, bookings[k].end, r.start, r.end)

\* C17: on valid ranges (start <= end) the overlap test of CreateBooking
\* reports a conflict exactly when s1 <= e2 and s2 <= e1: a request answered
\* RangeUnavailable shares a day with a stored booking of the item, endpoints
\* included, and an admitted request shares none.
C17_OverlapIsInclusiveIntersection ==
  [][/\ (/\ req'.op = "createBooking" /\ resp' = RangeUnavailable
         /\ ValidRange(req')
         /\ \A k \in BookingIds : ValidRange(bookings[k]))
          => DateConflict(req')
     /\ \A c \in Clients :
          (/\ inflight[c] = Idle /\ inflight'[c] # Idle
           /\ ValidRange(inflight'[c])
           /\ \A k \in BookingIds : ValidRange(bookings[k]))
          => ~DateConflict(inflight'[c])]_vars

\* C17 witness: against a stored booking ending on day D, a request starting
\* on day D was answered RangeUnavailable while a request for the same item
\* starting on day D + 1 was admitted.
C17_Witness ==
  /\ req.op = "createBooking" /\ resp = RangeUnavailable
  /\ Len(bookings) = 1 /\ Active(bookings[1])
  /\ req.item = bookings[1].item
  /\ bookings[1].start < bookings[1].end
  /\ req.start = bookings[1].end /\ req.start < req.end
  /\ \E c \in Clients :
       /\ inflight[c] # Idle
       /\ inflight[c].item = bookings[1].item
       /\ inflight[c].start = bookings[1].end + 1

\* C18: the admissibility check counts only pending and confirmed bookings of
\* the same item: with valid ranges throughout, a request by a non-owner is
\* answered RangeUnavailable only if such a booking overlaps it, and is
\* admitted only if none does.
C18_OnlyPendingOrConfirmedBlock ==
  [][/\ (/\ req'.op = "createBooking" /\ resp' = RangeUnavailable
         /\ ValidRange(req')
         /\ \A k \in BookingIds : ValidRange(bookings[k]))
          => Blocked(req')
     /\ \A c \in Clients :
          (/\ inflight[c] = Idle /\ inflight'[c] # Idle
           /\ ValidRange(inflight'[c])
           /\ \A k \in BookingIds : ValidRange(bookings[k]))
          => ~Blocked(inflight'[c])]_vars

\* C19: CreateOrder opens an order with the gateway, and answers success, only
\* for a stored booking that is pending and unpaid.
C19_OrderOnlyForPendingUnpaid ==
  [][(orders' # orders \/ (req'.op = "createOrder" /\ resp'.code = 200))
     => /\ req'.op = "createOrder"
        /\ req'.bookingId \in BookingIds
        /\ bookings[req'.bookingId].status = "pending"
        /\ bookings[req'.bookingId].pay = "unpaid"]_vars

\* C20: the amount of an order opened for a stored booking is the total
\* computed from that booking's stored item and stored dates, whatever item
\* and dates the request carries.
C20_OrderAmountFromStoredBooking ==
  [][(/\ req'.op = "createOrder"
      /\ Len(orders') = Len(orders) + 1
      /\ req'.bookingId \in BookingIds)
     => orders'[Len(orders')].amount
          = TotalAmount(bookings[req'.bookingId].item,
                        bookings[req'.bookingId].start,
                        bookings[req'.bookingId].end) * PaisePerRupee]_vars

\* the order a successful CreateOrder step has just opened
OpenedOrder == orders'[Len(orders')]

OrderOpened == req'.op = "createOrder" /\ Len(orders') = Len(orders) + 1

\* C21: for an item priced 100 per day, start 2024-05-01 (day 1) and end
\* 2024-05-03 (day 3), the breakdown is rentPayment 300, platformFee 45,
\* safetyDeposit 200 and total 545.
C21_PricingExample ==
  [][(/\ OrderOpened
      /\ ItemPriceCents(req'.item) = 100 * 100
      /\ ItemPriceUnit(req'.item) = "day"
      /\ req'.start = 1 /\ req'.end = 3)
     => /\ OpenedOrder.rent_payment = 300
        /\ OpenedOrder.platform_fee = 45
        /\ OpenedOrder.safety_deposit = 200
        /\ OpenedOrder.amount = 545 * PaisePerRupee]_vars

\* C22: every breakdown has rentPayment = ceil(unitPrice * duration),
\* platformFee = ceil(rentPayment * 0.15), safetyDeposit = 200 and
\* total = rentPayment + platformFee + safetyDeposit, and its three components
\* are non-negative integers.
C22_BreakdownArithmetic ==
  [][OrderOpened
     => /\ OpenedOrder.rent_payment
             = Ceil(ItemPriceCents(req'.item) * (req'.end - req'.start), 100)
        /\ OpenedOrder.platform_fee = Ceil(OpenedOrder.rent_payment * 15, 100)
        /\ OpenedOrder.safety_deposit = 200
        /\ OpenedOrder.amount
             = (OpenedOrder.rent_payment + OpenedOrder.platform_fee
                  + OpenedOrder.safety_deposit) * PaisePerRupee
        /\ OpenedOrder.rent_payment \in Nat
        /\ OpenedOrder.platform_fee \in Nat
        /\ OpenedOrder.safety_deposit \in Nat]_vars

\* C23: the duration charged is at least one unit for every date range with
\* start <= end, the same-day range included, so the rent of an item with a
\* positive price is at least its price for one unit.
C23_DurationAtLeastOneUnit ==
  [][(OrderOpened /\ req'.start <= req'.end /\ ItemPriceCents(req'.item) > 0)
     => /\ OpenedOrder.rent_payment > 0
        /\ OpenedOrder.rent_payment >= Ceil(ItemPriceCents(req'.item), 100)]_vars

\* the number of days of one price unit
DaysPerUnit(unit) == IF unit = "week" THEN 7 ELSE 1

\* C24: the duration is counted in the item's own price unit: an item priced
\* per week is charged for ceil(range in weeks) units, an item priced per day
\* for the range in days.
C24_DurationInPriceUnit ==
  [][(OrderOpened /\ req'.start < req'.end)
     => OpenedOrder.rent_payment
          = Ceil(ItemPriceCents(req'.item)
                   * Ceil(req'.end - req'.start,
                          DaysPerUnit(ItemPriceUnit(req'.item))), 100)]_vars

CreateOrderFailed == Response(500, "Failed to create payment order")

\* C25: when the gateway fails during CreateOrder the caller is answered with
\* an error, the handler has called the gateway once and not again, and the
\* bookings and the orders are as they were; no CreateOrder calls the gateway
\* more than once.
C25_GatewayFailureSurfaced ==
  [][req'.op = "createOrder"
     => /\ req'.gatewayCalls <= 1
        /\ (req'.gatewayCalls = 1 /\ resp'.code # 200)
             => /\ resp' = CreateOrderFailed
                /\ bookings' = bookings
                /\ orders' = orders]_vars

\* C25 witness: the gateway failed on an order for a stored booking, after an
\* earlier order had been opened: the caller was answered with the error and
\* only the earlier order exists.
C25_Witness ==
  /\ req.op = "createOrder" /\ resp = CreateOrderFailed
  /\ req.gatewayCalls = 1
  /\ req.bookingId \in BookingIds
  /\ Len(orders) = 1

\* C27: a correctly signed VerifyAndConfirm naming a booking that is not
\* stored is answered with an error, never with success.
C27_MissingBookingIsAnError ==
  (/\ req.op = "verify"
   /\ req.signature = RequestHmac(req)
   /\ req.bookingId \notin BookingIds)
  => (resp # VerifyOk /\ resp.code >= 400)

\* the response is an error
IsError(response) == response.code >= 400

\* C28: every step that answers with an error (validation, authorization,
\* conflict, signature, gateway or storage failure) leaves the stored bookings
\* and the orders exactly as they were.
C28_ErrorsChangeNothing ==
  [][IsError(resp') => (bookings' = bookings /\ orders' = orders)]_vars

\* C28 witness: the store failed under a correctly signed verification of a
\* stored booking for which an order is open; the caller was answered with the
\* error and the booking is still pending and unpaid.
C28_Witness ==
  /\ req.op = "verify" /\ resp.code = 500
  /\ req.signature = RequestHmac(req)
  /\ req.bookingId \in BookingIds
  /\ bookings[req.bookingId].status = "pending"
  /\ bookings[req.bookingId].pay = "unpaid"
  /\ Len(orders) = 1

\* C29: a booking is paid only after an order was created for that booking.
C29_PaidOnlyAfterOrder ==
  \A k \in BookingIds :
    bookings[k].pay = "paid"
      => \E j \in 1..Len(orders) : orders[j].booking_id = k

\* The PaymentOrder records the database holds for a booking.  The handlers
\* write one table, Bookings, so such a record is part of the booking's row.
StoredPaymentOrders(rows, bookingId) ==
  {rows[k].payment_order :
     k \in {j \in DOMAIN rows :
              j = bookingId /\ "payment_order" \in DOMAIN rows[j]}}

\* C30: after a successful CreateOrder for a stored booking the database holds,
\* under the booking's identifier, a PaymentOrder record with the gateway's
\* order identifier and the amount, and no step removes or alters such a
\* record.
C30_PaymentOrderPersisted ==
  [][/\ (OrderOpened /\ resp'.code = 200 /\ req'.bookingId \in BookingIds)
          => \E o \in StoredPaymentOrders(bookings', req'.bookingId) :
               /\ o.order_id = OrderId(Len(orders'))
               /\ o.amount = OpenedOrder.amount
     /\ \A k \in BookingIds :
          StoredPaymentOrders(bookings, k)
            \subseteq StoredPaymentOrders(bookings', k)]_vars

\* C26: of the status-changing operations that examined a booking in the same
\* status, at most one writes: a TransitionStatus takes effect only if the
\* booking still has the status it had when the operation examined it, and a
\* status write by TransitionStatus or MarkPaid leaves every waiting
\* TransitionStatus with a conflict error instead of a later write.
C26_WritesAreCompareAndSwap ==
  [][(req'.op = "transitionStatus" /\ resp'.code = 200)
     => bookings[req'.bookingId].status = req'.seen]_vars

\* the identifiers of the rows of a Bookings table
StoredIds(rows) == {rows[k].id : k \in 1..Len(rows)}

\* C31: no operation removes a booking: every stored identifier is still
\* stored after every step, and a status request that cancels or rejects a
\* booking leaves the table as long as it was, with the booking in it under
\* its new status.
C31_NoBookingRemoved ==
  [][/\ StoredIds(bookings) \subseteq StoredIds(bookings')
     /\ Len(bookings') >= Len(bookings)
     /\ (/\ req'.op = "transitionStatus" /\ resp' = StatusUpdated
         /\ req'.status \in {"cancelled", "rejected"})
          => /\ Len(bookings') = Len(bookings)
             /\ bookings'[req'.bookingId].id = req'.bookingId
             /\ bookings'[req'.bookingId].status = req'.status]_vars

\* C31 witness: the first of two stored bookings was just cancelled, and both
\* are still stored.
C31_Witness ==
  /\ req.op = "transitionStatus" /\ resp = StatusUpdated
  /\ req.status = "cancelled" /\ req.bookingId = 1
  /\ Len(bookings) = 2
  /\ bookings[1].id = 1 /\ bookings[1].status = "cancelled"

\* the request asks for the item and the range of stored booking k
SameItemAndRange(r, k) ==
  /\ bookings[k].item = r.item
  /\ bookings[k].start = r.start /\ bookings[k].end = r.end

\* C35: once a booking is rejected or cancelled its range is free again: a
\* CreateBooking by a non-owner for the same item and the same range, which
\* no pending or confirmed booking of the item overlaps, is not refused (all
\* ranges valid).
C35_RangeReleased ==
  [][(/\ req'.op = "createBooking" /\ resp'.code # 201
      /\ req'.item \in ItemIds /\ ItemOwner(req'.item) # req'.user
      /\ ValidRange(req')
      /\ \A k \in BookingIds : ValidRange(bookings[k])
      /\ \E k \in BookingIds : /\ bookings[k].status \in {"rejected", "cancelled"}
                               /\ SameItemAndRange(req', k)
      /\ ~Blocked(req'))
     => FALSE]_vars

\* C36: a paid booking is confirmed, completed or cancelled, never pending or
\* rejected.
C36_PaidIsNeverPendingOrRejected ==
  \A k \in BookingIds :
    bookings[k].pay = "paid"
      => bookings[k].status \in {"confirmed", "completed", "cancelled"}

\* the columns of a Bookings row that are set when the booking is created
CreationColumns(row) == <<row.id, row.item, row.user, row.start, row.end>>

\* C37: no step changes the item, the requester or the dates of a stored
\* booking, and a status request, a payment processing or a payment
\* verification changes no booking but the one it names.
C37_OnlyStatusOfTargetChanges ==
  [][/\ \A k \in BookingIds :
          /\ k <= Len(bookings')
          /\ CreationColumns(bookings'[k]) = CreationColumns(bookings[k])
     /\ req'.op \in {"transitionStatus", "processPayment", "verify"}
          => /\ Len(bookings') = Len(bookings)
             /\ \A k \in BookingIds :
                  k # req'.bookingId => bookings'[k] = bookings[k]]_vars

\* C37 witness: the payment of one of two stored bookings was just processed,
\* and the other booking is still unpaid.
C37_Witness ==
  /\ req.op = "processPayment" /\ resp.code = 200
  /\ Len(bookings) = 2
  /\ bookings[req.bookingId].pay = "completed"
  /\ \E k \in BookingIds : k # req.bookingId /\ bookings[k].pay = "unpaid"

BookingNotFound == Response(404, "Booking not found")

\* C39: payment processing changes a booking only for its requester: a
\* request with all its fields that names a booking that is not stored, or one
\* of another user, is answered BookingNotFound, and every such request leaves
\* the bookings as they were.
C39_ProcessOnlyOwnBooking ==
  [][(/\ req'.op = "processPayment"
      /\ \/ req'.bookingId \notin BookingIds
         \/ bookings[req'.bookingId].user # req'.user)
     => /\ bookings' = bookings
        /\ req'.fieldsPresent => resp' = BookingNotFound]_vars

\* C39 witness: the owner of the item asked to process the payment of a
\* renter's stored booking and was answered BookingNotFound; the booking is
\* unpaid.
C39_Witness ==
  /\ req.op = "processPayment" /\ resp = BookingNotFound
  /\ req.bookingId \in BookingIds
  /\ req.user = ItemOwner(bookings[req.bookingId].item)
  /\ bookings[req.bookingId].user # req.user
  /\ bookings[req.bookingId].pay = "unpaid"

\* the checkout was opened by this step
CheckoutOpened == checkout.pc # "checkoutOpen" /\ checkout'.pc = "checkoutOpen"

\* C34: the order the gateway is asked for carries the computed total times
\* 100, and the amount the client opens the checkout with for an order is the
\* amount the gateway holds for that order.
C34_CheckoutAmountIsOrderAmount ==
  [][/\ orders' # orders
          => orders'[Len(orders')].amount
               = 100 * TotalAmount(req'.item, req'.start, req'.end)
     /\ CheckoutOpened
          => \E k \in 1..Len(orders) :
               /\ OrderId(k) = checkout'.options.order_id
               /\ checkout'.options.amount = orders[k].amount]_vars

\* C34 witness: the checkout is open for an order of one day of item i1
\* (100 a day): 100 + 15 + 200 = 315, 31500 in minor units.
C34_Witness ==
  /\ checkout.pc = "checkoutOpen"
  /\ Len(orders) = 1
  /\ checkout.options.order_id = OrderId(1)
  /\ orders[1].amount = 31500
  /\ checkout.options.amount = 31500

\* C38: onSuccess is called only by the step that receives the successful
\* answer of the backend to the verification of the payment in hand; no step
\* out of order creation calls it, and dismissing the checkout calls onCancel.
C38_SuccessOnlyAfterVerification ==
  [][/\ (checkout'.called = "onSuccess" /\ checkout.called # "onSuccess")
          => /\ checkout.pc = "verifying"
             /\ req.op = "verify"
             /\ req.paymentId = checkout.payment.razorpay_payment_id
             /\ req.orderId = checkout.payment.razorpay_order_id
             /\ resp = Response(200, "Payment verified and booking confirmed")
     /\ (checkout.pc = "verifying" /\ checkout'.pc = "idle"
         /\ (resp = NoResponse \/ resp.code # 200))
          => checkout'.called = "none"
     /\ checkout.pc = "creatingOrder" => checkout'.called = "none"
     /\ (checkout.pc = "checkoutOpen" /\ checkout'.pc = "idle")
          => checkout'.called = "onCancel"]_vars

\* C38 witness: onSuccess was called, the component is at rest and the booking
\* it was shown for is confirmed and paid.
C38_Witness ==
  /\ checkout.called = "onSuccess" /\ checkout.pc = "idle"
  /\ checkout.props.booking_id = 1
  /\ bookings[1].status = "confirmed" /\ bookings[1].pay = "paid"

\* C33: a registration made while the database is unavailable, with an email
\* that is not registered, is completed from the mock data and answered 201.
C33_RegistrationFallsBack ==
  [][(/\ req'.op = "register"
      /\ ~req'.dbAvailable
      /\ req'.email \notin accounts)
     => resp'.code = 201]_vars

\* the handler serving client c has returned, with one response written
Answered(c) ==
  /\ inflight[c] # Idle
  /\ inflight[c].awaiting = 0
  /\ inflight[c].responses = 1

\* C32: every CreateBooking, TransitionStatus, CreateOrder and VerifyAndConfirm
\* request gets exactly one response: its handler never writes a second one,
\* it does not end before it has written one, and, the store and the gateway
\* answering or failing, every request is eventually answered.
C32_EveryRequestAnsweredOnce ==
  /\ [](\A c \in Clients : inflight[c] # Idle => inflight[c].responses <= 1)
  /\ [][\A c \in Clients :
          (inflight[c] # Idle /\ inflight'[c] = Idle) => Answered(c)]_vars
  /\ \A c \in Clients : (inflight[c] # Idle) ~> Answered(c)

\* C32 witness: a CreateOrder whose gateway call was rejected has been answered
\* 500, once, while a CreateBooking has been answered 201, once.
C32_Witness ==
  /\ Answered("c1") /\ inflight["c1"].op = "createOrder"
  /\ inflight["c1"].code = 500
  /\ Answered("c2") /\ inflight["c2"].op = "createBooking"
  /\ inflight["c2"].code = 201

====
